---- MODULE Spec2Model ----
(***************************************************************************)
(* NeighborFit: the matching algorithm and its persistence                 *)
(* (calculateAndSaveMatches and the data-access functions around it).      *)
(*                                                                         *)
(* Units.  Attribute scores are DECIMAL(3,1) columns and are held in       *)
(* tenths (0..100 for 0.0..10.0).  A match_score is a number with one      *)
(* decimal and is held in tenths (400..950 for 40.0..95.0).  Intermediate  *)
(* values of the score computation are exact rationals [num, den].         *)
(* Math.random() is held in units of 1/200, so that the variation          *)
(* (Math.random() - 0.5) * 2 is a whole number of hundredths.              *)
(*                                                                         *)
(* IEEE-754.  The code computes in doubles.  A double result differs from  *)
(* the exact value by far less than the distance between a value that is   *)
(* not halfway between two tenths and the nearest halfway point, so        *)
(* toFixed(1) of a non-halfway value is the nearest tenth.  When the exact *)
(* value IS halfway (x.x5), the double lies just below or just above it    *)
(* and toFixed(1) goes down or up accordingly; which of the two depends on *)
(* the operands.  fpBelowTie is the set of operand pairs for which the     *)
(* double lands below the halfway point.  Scaling every weight by two      *)
(* scales every intermediate double by exactly two, so the pair is keyed   *)
(* by the weights with common factors of two removed.                      *)
(***************************************************************************)
EXTENDS Integers, Sequences, FiniteSets, Bags, TLC

VARIABLES
    user_preferences,   \* table user_preferences: user_id -> importance vector, or NoRow
    neighborhoods_tbl,  \* table neighborhoods, in "name" order: Seq of [id, attrs]
    user_results,       \* table user_results: a bag of [user_id, neighborhood_id, match_score]
    schema,             \* which setup script created user_results
    rng,                \* the values Math.random() returns next (cyclic)
    fpBelowTie,         \* operand pairs whose double lands below an exact halfway value
    pc,                 \* per invocation: where calculateAndSaveMatches stands
    userId,             \* per invocation: the userId argument
    preferences,        \* per invocation: const preferences
    neighborhoods,      \* per invocation: const neighborhoods
    results,            \* per invocation: const results, after results.sort
    variation,          \* per invocation: the variation drawn for each index
    enhancedResults,    \* per invocation: const enhancedResults
    deleteError,        \* per invocation: whether the delete reported an error
    attempts,           \* per invocation: [upsert, insert] calls made so far
    ret,                \* per invocation: the value the invocation returned
    prior,              \* per invocation: the rows its user had stored when it was called
    currentQuestionIndex, \* per session: QuizPage state currentQuestionIndex
    answers,            \* per session: QuizPage state answers (0: no answer recorded)
    isSubmitting,       \* per session: QuizPage state isSubmitting
    errorMessage,       \* per session: QuizPage state error
    clicksLeft,         \* per session: the clicks the quiz page still receives
    submitted,          \* per session: const preferences of handleSubmit
    existingData,       \* per session: existingData of saveUserPreferences
    matches,            \* ResultsPage: the last getUserMatches call: its user, the
                        \* value it returned and whether it logged an error
    readsLeft,          \* the fetches the results page still makes
    route,              \* per session: the page router.push last asked for
    isSupabaseConfigured, \* whether both Supabase environment variables are set
    session,            \* whether the cookies of the client hold a session
    request,            \* the request the client has sent: [path, code], or NoRequest
    response,           \* what updateSession answered to it: [kind, location]
    redirects,          \* the redirects the client has followed so far
    firstSession        \* whether the client held a session when it sent its first request

dbVars   == <<user_preferences, neighborhoods_tbl, user_results, schema>>
envVars  == <<rng, fpBelowTie>>
procVars == <<pc, userId, preferences, neighborhoods, results, variation,
              enhancedResults, deleteError, attempts, ret>>
quizVars == <<currentQuestionIndex, answers, errorMessage, clicksLeft>>
saveVars == <<submitted, existingData>>
pageVars == <<quizVars, saveVars, matches, readsLeft>>
mwVars   == <<isSupabaseConfigured, session, request, response, redirects,
              firstSession>>
vars     == <<dbVars, envVars, procVars, prior, isSubmitting, pageVars, route, mwVars>>

-----------------------------------------------------------------------------
(* The 13 lifestyle factors *)

FactorNames ==
    {"safety", "affordability", "connectivity", "metro_access", "food_culture",
     "nightlife", "family_friendly", "cultural_diversity", "green_spaces",
     "job_opportunities", "healthcare", "education", "shopping"}

\* Object.values(...) / the weightedScores array literal: the order of the 13 terms
FactorOrder ==
    <<"safety", "affordability", "connectivity", "metro_access", "food_culture",
      "nightlife", "family_friendly", "cultural_diversity", "green_spaces",
      "job_opportunities", "healthcare", "education", "shopping">>

ImportanceMin == 1     \* CHECK (importance >= 1 AND importance <= 5)
ImportanceMax == 5

\* no row / null (a stored importance is never 0)
NoRow == [f \in FactorNames |-> 0]

-----------------------------------------------------------------------------
(* Arithmetic helpers *)

Min(a, b) == IF a <= b THEN a ELSE b
Max(a, b) == IF a >= b THEN a ELSE b

Rat(n, d) == [num |-> n, den |-> d]
RatLeq(x, y) == x.num * y.den <= y.num * x.den
RatMin(x, y) == IF RatLeq(x, y) THEN x ELSE y
RatMax(x, y) == IF RatLeq(x, y) THEN y ELSE x

RECURSIVE reduceSum(_, _)
\* array.reduce((sum, x) => sum + x, 0)
reduceSum(s, i) == IF i = 0 THEN 0 ELSE reduceSum(s, i - 1) + s[i]

\* (x).toFixed(1) followed by Number.parseFloat, for x >= 0: the result in tenths.
\* below: the double that holds x lies below x (only matters when x is halfway).
toFixed1(x, below) ==
    LET q == (10 * x.num) \div x.den
        r == (10 * x.num) % x.den
    IN  IF 2 * r > x.den THEN q + 1
        ELSE IF 2 * r < x.den THEN q
        ELSE IF below THEN q ELSE q + 1

IsHalfway(x) == 2 * ((10 * x.num) % x.den) = x.den

-----------------------------------------------------------------------------
(* Math.random() *)

\* the k-th value Math.random() returns from now on
Draw(k) == rng[((k - 1) % Len(rng)) + 1]

\* the stream after n calls of Math.random()
Advance(n) == [i \in 1..Len(rng) |-> rng[((i - 1 + n) % Len(rng)) + 1]]

-----------------------------------------------------------------------------
(* calculateAndSaveMatches: the score of one neighborhood *)

\* mutant: a base of 50 percent
baseScoreHalf == 100 \div 2
baseScore == 40       \* Minimum match percentage
\* mutant: the additional score mistyped as 65
variableScoreTypo == 5 * 13
variableScore == 55   \* Maximum additional score (40 + 55 = 95% max)

\* mutant: affordability read as a cost, so that a higher score counts for less
normalizedScoresInverted(neighborhood) ==
    [f \in FactorNames |->
        IF f = "affordability"
        THEN 100 - Min(neighborhood.attrs[f], 100)
        ELSE Min(neighborhood.attrs[f], 100)]

\* Math.min(neighborhood.X_score / 10, 1), in hundredths (the score is in tenths)
normalizedScores(neighborhood) ==
    [f \in FactorNames |-> Min(neighborhood.attrs[f], 100)]

\* mutant: the importance scaled from zero, (X_importance - 1) / 4
normalizedImportanceZeroBased(prefs) ==
    [f \in FactorNames |-> prefs[f] - 1]

\* preferences.X_importance / 5, in fifths
normalizedImportance(prefs) ==
    [f \in FactorNames |-> prefs[f]]

\* normalizedScores.X * normalizedImportance.X for the 13 factors, in 1/500
weightedScores(neighborhood, prefs) ==
    [i \in 1..Len(FactorOrder) |->
        normalizedScores(neighborhood)[FactorOrder[i]]
            * normalizedImportance(prefs)[FactorOrder[i]]]

\* mutant: the reduce stops one factor short
totalWeightedScoreShort(neighborhood, prefs) ==
    reduceSum(weightedScores(neighborhood, prefs), Len(FactorOrder) - 1)

\* weightedScores.reduce((sum, score) => sum + score, 0), in 1/500
totalWeightedScore(neighborhood, prefs) ==
    reduceSum(weightedScores(neighborhood, prefs), Len(FactorOrder))

\* Object.values(normalizedImportance).reduce((sum, weight) => sum + weight, 0), in fifths
totalImportanceWeight(prefs) ==
    reduceSum([i \in 1..Len(FactorOrder) |-> normalizedImportance(prefs)[FactorOrder[i]]],
              Len(FactorOrder))

\* totalWeightedScore / totalImportanceWeight = (tws / 500) / (tiw / 5)
normalizedMatch(neighborhood, prefs) ==
    Rat(totalWeightedScore(neighborhood, prefs) * 5,
        totalImportanceWeight(prefs) * 500)

\* let matchScore = baseScore; if (totalImportanceWeight > 0) matchScore = base + nm * variable
matchScore(neighborhood, prefs) ==
    IF totalImportanceWeight(prefs) > 0
    THEN LET nm == normalizedMatch(neighborhood, prefs)
         IN  Rat(baseScore * nm.den + nm.num * variableScore, nm.den)
    ELSE Rat(baseScore, 1)

\* Math.min(Math.max(matchScore, baseScore), baseScore + variableScore)
finalScore(neighborhood, prefs) ==
    RatMin(RatMax(matchScore(neighborhood, prefs), Rat(baseScore, 1)),
           Rat(baseScore + variableScore, 1))

RECURSIVE OddPart(_)
\* the importance vector with common factors of two removed
OddPart(prefs) ==
    IF \A f \in FactorNames : prefs[f] % 2 = 0 /\ prefs[f] > 0
    THEN OddPart([f \in FactorNames |-> prefs[f] \div 2])
    ELSE prefs

\* the operand pair that decides which way the double of finalScore falls
FpKey(neighborhood, prefs) == <<normalizedScores(neighborhood), OddPart(prefs)>>

\* mutant: "add some randomization for similar scores" before the sort
MatchRowRandomized(user, neighborhood, prefs) ==
    [user_id         |-> user,
     neighborhood_id |-> neighborhood.id,
     match_score     |-> toFixed1(finalScore(neighborhood, prefs),
                                  FpKey(neighborhood, prefs) \in fpBelowTie)
                            + ((Draw(neighborhood.id) - 100) \div 10)]

\* one element of results: { user_id, neighborhood_id, match_score }
MatchRow(user, neighborhood, prefs) ==
    [user_id         |-> user,
     neighborhood_id |-> neighborhood.id,
     match_score     |-> toFixed1(finalScore(neighborhood, prefs),
                                  FpKey(neighborhood, prefs) \in fpBelowTie)]

\* neighborhoods.map((neighborhood) => ...)
MapResults(user, nbs, prefs) ==
    [i \in 1..Len(nbs) |-> MatchRow(user, nbs[i], prefs)]

-----------------------------------------------------------------------------
(* lib/database.ts: the score of one neighborhood in the simple
   calculateAndSaveMatches *)

\* mutant: the factor scores without the division of the importance by 5
simpleWeightedScoresUnscaled(neighborhood, prefs) ==
    [i \in 1..Len(FactorOrder) |->
        5 * neighborhood.attrs[FactorOrder[i]] * prefs[FactorOrder[i]]]

\* neighborhood.X_score * (preferences.X_importance / 5) for the 13 factors, in 1/50
simpleWeightedScores(neighborhood, prefs) ==
    [i \in 1..Len(FactorOrder) |->
        neighborhood.attrs[FactorOrder[i]] * prefs[FactorOrder[i]]]

\* const totalImportance: the sum of the 13 importances
simpleTotalImportance(prefs) ==
    reduceSum([i \in 1..Len(FactorOrder) |-> prefs[FactorOrder[i]]], Len(FactorOrder))

\* const totalScore: the sum of the 13 factor scores, in 1/50
simpleTotalScore(neighborhood, prefs) ==
    reduceSum(simpleWeightedScores(neighborhood, prefs), Len(FactorOrder))

\* const matchScore = (totalScore / totalImportance) * 10
simpleMatchScore(neighborhood, prefs) ==
    Rat(simpleTotalScore(neighborhood, prefs) * 10, 50 * simpleTotalImportance(prefs))

-----------------------------------------------------------------------------
(* results.sort((a, b) => b.match_score - a.match_score): stable, descending *)

\* r goes after every element whose match_score is not below its own
InsertDesc(sorted, r) ==
    LET k == Cardinality({i \in 1..Len(sorted) : sorted[i].match_score >= r.match_score})
    IN  SubSeq(sorted, 1, k) \o <<r>> \o SubSeq(sorted, k + 1, Len(sorted))

RECURSIVE SortPrefix(_, _)
SortPrefix(rs, n) ==
    IF n = 0 THEN <<>> ELSE InsertDesc(SortPrefix(rs, n - 1), rs[n])

SortDesc(rs) == SortPrefix(rs, Len(rs))

-----------------------------------------------------------------------------
(* the enhancement step: results.map((result, index) => ...) *)

BoostedRanks == 10    \* if (index < 10)
BoostStep    == 2     \* boost = (10 - index) * 2
EnhanceMin   == 40    \* Math.max(40, ...)
EnhanceMax   == 95    \* Math.min(..., 95)

\* mutant: the rank counted from one instead of zero
BoostOneBased(index) ==
    IF index < BoostedRanks THEN (BoostedRanks - (index + 1)) * BoostStep ELSE 0

\* mutant: the boost grows with the rank
BoostAscending(index) ==
    IF index < BoostedRanks THEN (index + 1) * BoostStep ELSE 0

\* the boost applied at zero-based index, in percent
Boost(index) == IF index < BoostedRanks THEN (BoostedRanks - index) * BoostStep ELSE 0

\* enhancedScore after the boost and before the variation, in tenths
BoostedScore(score, index) ==
    IF index < BoostedRanks
    THEN Min(score + Boost(index) * 10, EnhanceMax * 10)
    ELSE score

\* mutant: (Math.random() - 0.5) * 4
VariationDouble(r) == 2 * (r - 100)

\* (Math.random() - 0.5) * 2 in hundredths, for Math.random() = r / 200
Variation(r) == r - 100

\* mutant: the variation added after the clamp instead of inside it
EnhancedScoreNoClamp(score, index, v) ==
    toFixed1(Rat(BoostedScore(score, index) * 10 + v, 100), FALSE)

\* Math.max(40, Math.min(95, enhancedScore + variation)).toFixed(1), in tenths
EnhancedScore(score, index, v) ==
    toFixed1(Rat(Max(EnhanceMin * 100,
                     Min(EnhanceMax * 100, BoostedScore(score, index) * 10 + v)), 100),
             FALSE)

Enhance(rs, vs) ==
    [i \in 1..Len(rs) |->
        [rs[i] EXCEPT !.match_score = EnhancedScore(rs[i].match_score, i - 1, vs[i])]]

-----------------------------------------------------------------------------
(* The result store: table user_results as each setup script creates it *)

\* scripts/setup-database.sql: no UNIQUE, policies for SELECT and INSERT only
\* scripts/setup-database-government-data.sql: UNIQUE, policies for SELECT and INSERT only
\* scripts/cleanup-database.sql: UNIQUE, policies for SELECT, INSERT, UPDATE and DELETE
Schemas == {"setup", "government", "cleanup"}

HasUnique       == schema \in {"government", "cleanup"}
HasUpdatePolicy == schema = "cleanup"
HasDeletePolicy == schema = "cleanup"

SeqToSet(s) == {s[i] : i \in 1..Len(s)}

\* the rows of the table that satisfy a predicate, as a bag
RowsWhere(Keep(_)) ==
    LET keep == {r \in DOMAIN user_results : Keep(r)}
    IN  [r \in keep |-> user_results[r]]

\* a stored row with the same (user_id, neighborhood_id) as one of rows
Conflicts(row, rows) ==
    \E n \in SeqToSet(rows) :
        n.user_id = row.user_id /\ n.neighborhood_id = row.neighborhood_id

HasConflict(rows) == \E r \in DOMAIN user_results : Conflicts(r, rows)

\* mutant: the delete without its .eq("user_id", userId) filter
DeleteRowsAll(user) ==
    IF HasDeletePolicy THEN EmptyBag ELSE user_results

\* .delete().eq("user_id", userId): row-level security hides every row from a
\* DELETE when the table has no DELETE policy, and that is not an error
DeleteRows(user) ==
    IF HasDeletePolicy
    THEN LET NotOfUser(r) == r.user_id # user IN RowsWhere(NotOfUser)
    ELSE user_results

\* .upsert(rows, { onConflict: 'user_id,neighborhood_id', ignoreDuplicates: false })
\* fails without a matching unique constraint, and when a row conflicts and the table
\* has no UPDATE policy
UpsertFails(rows) ==
    \/ ~HasUnique
    \/ HasConflict(rows) /\ ~HasUpdatePolicy

UpsertRows(rows) ==
    LET NoConflict(r) == ~Conflicts(r, rows)
    IN  RowsWhere(NoConflict) (+) SetToBag(SeqToSet(rows))

\* .insert(rows) fails on a unique violation
InsertFails(rows) == HasUnique /\ HasConflict(rows)

InsertRows(rows) == user_results (+) SetToBag(SeqToSet(rows))

MaxCopies == 2   \* rows kept per (user_id, neighborhood_id) when nothing is unique

\* the rows stored for one (user_id, neighborhood_id)
CopiesOf(user, nid) ==
    LET Same(r) == r.user_id = user /\ r.neighborhood_id = nid
    IN  BagCardinality(RowsWhere(Same))

WithinCap(rows) ==
    \A n \in SeqToSet(rows) : CopiesOf(n.user_id, n.neighborhood_id) < MaxCopies

-----------------------------------------------------------------------------
(* calculateAndSaveMatches(userId), one action per await *)

NumProcs == 2
Procs    == 1..NumProcs
Users    == {"u1", "u2"}
NoUser   == "NoUser"
\* the invocation has not returned
Pending == [returned |-> FALSE, value |-> <<>>]
\* getUserMatches has not been called
NoMatches == [user |-> NoUser, value |-> <<>>, failed |-> FALSE]

NoAttempts == [upsert |-> 0, insert |-> 0]

\* return v; in handleSubmit: finally { setIsSubmitting(false) }
Return(p, v) ==
    /\ pc'  = [pc EXCEPT ![p] = "idle"]
    /\ ret' = [ret EXCEPT ![p] = [returned |-> TRUE, value |-> v]]
    /\ prior' = [prior EXCEPT ![p] = EmptyBag]
    /\ isSubmitting' = [isSubmitting EXCEPT ![p] = FALSE]
    /\ route' = [route EXCEPT ![p] = IF isSubmitting[p] THEN "/results" ELSE @]

\* the rows of the table stored for one user, as a bag
RowsOf(user) ==
    LET OfUser(r) == r.user_id = user IN RowsWhere(OfUser)

\* a caller, or handleSubmit after the preferences are saved, calls
\* calculateAndSaveMatches(userId)
Call(p) ==
    /\ pc[p] \in {"idle", "calculate"}
    /\ userId[p] # NoUser
    /\ pc'              = [pc EXCEPT ![p] = "getUserPreferences"]
    /\ preferences'     = [preferences EXCEPT ![p] = NoRow]
    /\ neighborhoods'   = [neighborhoods EXCEPT ![p] = <<>>]
    /\ results'         = [results EXCEPT ![p] = <<>>]
    /\ variation'       = [variation EXCEPT ![p] = <<>>]
    /\ enhancedResults' = [enhancedResults EXCEPT ![p] = <<>>]
    /\ deleteError'     = [deleteError EXCEPT ![p] = FALSE]
    /\ attempts'        = [attempts EXCEPT ![p] = NoAttempts]
    /\ ret'             = [ret EXCEPT ![p] = Pending]
    /\ prior'           = [prior EXCEPT ![p] = RowsOf(userId[p])]
    /\ UNCHANGED <<dbVars, envVars, userId, isSubmitting, route, pageVars>>
    /\ UNCHANGED mwVars

\* getUserPreferences(userId): null on an error other than "not found", else the row
getUserPreferences(user, error) ==
    IF error THEN NoRow ELSE user_preferences[user]

\* const preferences = await getUserPreferences(userId); if (!preferences) return []
GetUserPreferences(p) ==
    /\ pc[p] = "getUserPreferences"
    /\ \E error \in BOOLEAN :
        LET data == getUserPreferences(userId[p], error)
        IN  IF data = NoRow
            THEN /\ Return(p, <<>>)
                 /\ UNCHANGED preferences
            ELSE /\ preferences' = [preferences EXCEPT ![p] = data]
                 /\ pc' = [pc EXCEPT ![p] = "getNeighborhoods"]
                 /\ UNCHANGED <<ret, prior, isSubmitting, route>>
    /\ UNCHANGED <<dbVars, envVars, userId, neighborhoods, results, variation,
                   enhancedResults, deleteError, attempts, pageVars>>
    /\ UNCHANGED mwVars

\* getNeighborhoods(): [] on an error, else the rows ordered by name
getNeighborhoods(error) ==
    IF error THEN <<>> ELSE neighborhoods_tbl

\* mutant: the stored results are cleared before the catalog is looked at
GetNeighborhoodsDeleteFirst(p) ==
    /\ pc[p] = "getNeighborhoods"
    /\ user_results' = DeleteRows(userId[p])
    /\ \E error \in BOOLEAN :
        LET data   == getNeighborhoods(error)
            sorted == SortDesc(MapResults(userId[p], data, preferences[p]))
            vs     == [i \in 1..Len(data) |-> Variation(Draw(i))]
        IN  IF Len(data) = 0
            THEN /\ Return(p, <<>>)
                 /\ UNCHANGED <<neighborhoods, results, variation, enhancedResults, rng>>
            ELSE /\ neighborhoods'   = [neighborhoods EXCEPT ![p] = data]
                 /\ results'         = [results EXCEPT ![p] = sorted]
                 /\ variation'       = [variation EXCEPT ![p] = vs]
                 /\ enhancedResults' = [enhancedResults EXCEPT ![p] = Enhance(sorted, vs)]
                 /\ rng'             = Advance(Len(data))
                 /\ pc'              = [pc EXCEPT ![p] = "delete"]
                 /\ UNCHANGED <<ret, prior, isSubmitting, route>>
    /\ UNCHANGED <<user_preferences, neighborhoods_tbl, schema, fpBelowTie, userId,
                   preferences, deleteError, attempts, pageVars>>
    /\ UNCHANGED mwVars

\* const neighborhoods = await getNeighborhoods(); if (neighborhoods.length === 0)
\* return []; then results (map, sort) and enhancedResults (map), up to the delete
GetNeighborhoods(p) ==
    /\ pc[p] = "getNeighborhoods"
    /\ \E error \in BOOLEAN :
        LET data   == getNeighborhoods(error)
            sorted == SortDesc(MapResults(userId[p], data, preferences[p]))
            vs     == [i \in 1..Len(data) |-> Variation(Draw(i))]
        IN  IF Len(data) = 0
            THEN /\ Return(p, <<>>)
                 /\ UNCHANGED <<neighborhoods, results, variation, enhancedResults, rng>>
            ELSE /\ neighborhoods'   = [neighborhoods EXCEPT ![p] = data]
                 /\ results'         = [results EXCEPT ![p] = sorted]
                 /\ variation'       = [variation EXCEPT ![p] = vs]
                 /\ enhancedResults' = [enhancedResults EXCEPT ![p] = Enhance(sorted, vs)]
                 /\ rng'             = Advance(Len(data))
                 /\ pc'              = [pc EXCEPT ![p] = "delete"]
                 /\ UNCHANGED <<ret, prior, isSubmitting, route>>
    /\ UNCHANGED <<dbVars, fpBelowTie, userId, preferences, deleteError, attempts,
                   pageVars>>
    /\ UNCHANGED mwVars

\* await supabase.from("user_results").delete().eq("user_id", userId);
\* on deleteError: continue anyway
Delete(p) ==
    /\ pc[p] = "delete"
    /\ \E error \in BOOLEAN :
        /\ user_results' = IF error THEN user_results ELSE DeleteRows(userId[p])
        /\ deleteError'  = [deleteError EXCEPT ![p] = error]
    /\ pc' = [pc EXCEPT ![p] = "upsert"]
    /\ UNCHANGED <<user_preferences, neighborhoods_tbl, schema, envVars, userId,
                   preferences, neighborhoods, results, variation, enhancedResults,
                   attempts, ret, prior, isSubmitting, route, pageVars>>
    /\ UNCHANGED mwVars

\* mutant: a failed upsert is tried once more before the fallback
UpsertRetry(p) ==
    /\ pc[p] = "upsert"
    /\ attempts' = [attempts EXCEPT ![p].upsert = @ + 1]
    /\ \E error \in BOOLEAN :
        IF error \/ UpsertFails(enhancedResults[p])
        THEN /\ pc' = [pc EXCEPT ![p] = IF attempts[p].upsert = 0 THEN "upsert"
                                                                 ELSE "insert"]
             /\ UNCHANGED <<user_results, ret, prior, isSubmitting, route>>
        ELSE /\ user_results' = UpsertRows(enhancedResults[p])
             /\ Return(p, enhancedResults[p])
    /\ UNCHANGED <<user_preferences, neighborhoods_tbl, schema, envVars, userId,
                   preferences, neighborhoods, results, variation, enhancedResults,
                   deleteError, pageVars>>
    /\ UNCHANGED mwVars

\* await supabase.from("user_results").upsert(enhancedResults, ...).select();
\* on error go on to the fallback insert, else return data || []
Upsert(p) ==
    /\ pc[p] = "upsert"
    /\ attempts' = [attempts EXCEPT ![p].upsert = @ + 1]
    /\ \E error \in BOOLEAN :
        IF error \/ UpsertFails(enhancedResults[p])
        THEN /\ pc' = [pc EXCEPT ![p] = "insert"]
             /\ UNCHANGED <<user_results, ret, prior, isSubmitting, route>>
        ELSE /\ user_results' = UpsertRows(enhancedResults[p])
             /\ Return(p, enhancedResults[p])
    /\ UNCHANGED <<user_preferences, neighborhoods_tbl, schema, envVars, userId,
                   preferences, neighborhoods, results, variation, enhancedResults,
                   deleteError, pageVars>>
    /\ UNCHANGED mwVars

\* await supabase.from("user_results").insert(enhancedResults).select();
\* on fallbackError return [], else return fallbackData || []
Insert(p) ==
    /\ pc[p] = "insert"
    /\ attempts' = [attempts EXCEPT ![p].insert = @ + 1]
    /\ \E error \in BOOLEAN :
        IF error \/ InsertFails(enhancedResults[p])
        THEN /\ Return(p, <<>>)
             /\ UNCHANGED user_results
        ELSE /\ WithinCap(enhancedResults[p])
             /\ user_results' = InsertRows(enhancedResults[p])
             /\ Return(p, enhancedResults[p])
    /\ UNCHANGED <<user_preferences, neighborhoods_tbl, schema, envVars, userId,
                   preferences, neighborhoods, results, variation, enhancedResults,
                   deleteError, pageVars>>
    /\ UNCHANGED mwVars

-----------------------------------------------------------------------------
(* QuizPage: the lifestyle quiz, one session per request handler *)

\* options: [{ value: 1 }, ..., { value: 5 }], the same for the 13 questions
Options == 1..5

\* quizQuestions, by the factor of each question's preference field
quizQuestions ==
    [i \in 1..Len(FactorOrder) |-> [preference |-> FactorOrder[i], options |-> Options]]

totalQuestions == Len(quizQuestions)

\* const currentQuestion = quizQuestions[currentQuestionIndex], the index from 0
currentQuestion(p) == quizQuestions[currentQuestionIndex[p] + 1]

\* useState<Record<string, number>>({}): no answer recorded
NoAnswers == [f \in FactorNames |-> 0]

\* useState<string | null>(null)
NoError == "null"

\* one click on the page is used up
Click(p) ==
    /\ clicksLeft[p] > 0
    /\ clicksLeft' = [clicksLeft EXCEPT ![p] = @ - 1]

\* onClick={() => handleAnswer(option.value)}
handleAnswer(p) ==
    /\ Click(p)
    /\ \E value \in currentQuestion(p).options :
          answers' = [answers EXCEPT ![p][currentQuestion(p).preference] = value]
    /\ currentQuestionIndex' =
          IF currentQuestionIndex[p] < totalQuestions - 1
          THEN [currentQuestionIndex EXCEPT ![p] = @ + 1]
          ELSE currentQuestionIndex
    /\ UNCHANGED <<dbVars, envVars, procVars, prior, isSubmitting, route, errorMessage, saveVars,
                   matches, readsLeft>>
    /\ UNCHANGED mwVars

\* the Previous button: disabled={currentQuestionIndex === 0}, onClick={handlePrevious}
handlePrevious(p) ==
    /\ Click(p)
    /\ currentQuestionIndex[p] > 0
    /\ currentQuestionIndex' = [currentQuestionIndex EXCEPT ![p] = @ - 1]
    /\ UNCHANGED <<dbVars, envVars, procVars, prior, isSubmitting, route, answers, errorMessage,
                   saveVars, matches, readsLeft>>
    /\ UNCHANGED mwVars

\* mutant: the Next button without its disabled attribute
NextButtonEnabled(p) ==
    /\ Click(p)
    /\ currentQuestionIndex[p] # totalQuestions - 1
    /\ currentQuestionIndex' = [currentQuestionIndex EXCEPT ![p] = @ + 1]
    /\ UNCHANGED <<dbVars, envVars, procVars, prior, isSubmitting, route, answers, errorMessage,
                   saveVars, matches, readsLeft>>
    /\ UNCHANGED mwVars

\* the Next button, shown before the last question:
\* disabled={!answers[currentQuestion.preference]},
\* onClick={() => setCurrentQuestionIndex(currentQuestionIndex + 1)}
NextButton(p) ==
    /\ Click(p)
    /\ currentQuestionIndex[p] # totalQuestions - 1
    /\ answers[p][currentQuestion(p).preference] # 0
    /\ currentQuestionIndex' = [currentQuestionIndex EXCEPT ![p] = @ + 1]
    /\ UNCHANGED <<dbVars, envVars, procVars, prior, isSubmitting, route, answers, errorMessage,
                   saveVars, matches, readsLeft>>
    /\ UNCHANGED mwVars

\* the record without the || 3 defaults
QuizPreferencesNoDefault(a) == a

\* X_importance: answers.X_importance || 3, for the 13 fields
QuizPreferences(a) == [f \in FactorNames |-> IF a[f] = 0 THEN 3 ELSE a[f]]

\* the submit button, shown at the last question: disabled={isSubmitting},
\* onClick={handleSubmit}; handleSubmit up to the call of saveUserPreferences
handleSubmit(p) ==
    /\ Click(p)
    /\ currentQuestionIndex[p] = totalQuestions - 1
    /\ ~isSubmitting[p]
    /\ pc[p] = "idle"
    /\ IF userId[p] = NoUser
       THEN /\ errorMessage' = [errorMessage EXCEPT ![p] = "User not authenticated"]
            /\ UNCHANGED <<pc, submitted, isSubmitting>>
       ELSE /\ errorMessage' = [errorMessage EXCEPT ![p] = NoError]
            /\ isSubmitting' = [isSubmitting EXCEPT ![p] = TRUE]
            /\ submitted' = [submitted EXCEPT ![p] = QuizPreferences(answers[p])]
            /\ pc' = [pc EXCEPT ![p] = "saveSelect"]
    /\ UNCHANGED <<dbVars, envVars, userId, preferences, neighborhoods, results,
                   variation, enhancedResults, deleteError, attempts, ret, prior,
                   currentQuestionIndex, answers, existingData, matches, readsLeft>>
    /\ UNCHANGED <<route, mwVars>>

-----------------------------------------------------------------------------
(* lib/quiz-questions.ts: getQuizLength, getQuizProgress *)

getQuizLength == Len(quizQuestions)

\* Math.round(x) for x = num / den >= 0: the integer nearest to x, halves go up
MathRound(num, den) == (2 * num + den) \div (2 * den)

\* Math.round(((currentQuestionIndex + 1) / quizQuestions.length) * 100)
getQuizProgress(index) == MathRound((index + 1) * 100, getQuizLength)

-----------------------------------------------------------------------------
(* saveUserPreferences(preferences), one action per await *)

\* CHECK (X_importance >= 1 AND X_importance <= 5), in scripts/cleanup-database.sql only
HasImportanceCheck == schema = "cleanup"

ViolatesCheck(prefs) ==
    /\ HasImportanceCheck
    /\ \E f \in FactorNames : prefs[f] < ImportanceMin \/ prefs[f] > ImportanceMax

\* const { data: existingData } = await ...select("id").eq("user_id", ...).single():
\* null when there is no row, and on an error
SaveSelect(p) ==
    /\ pc[p] = "saveSelect"
    /\ \E selectError \in BOOLEAN :
          existingData' = [existingData EXCEPT ![p] =
                              ~selectError /\ user_preferences[userId[p]] # NoRow]
    /\ pc' = [pc EXCEPT ![p] = "saveWrite"]
    /\ UNCHANGED <<dbVars, envVars, userId, preferences, neighborhoods, results,
                   variation, enhancedResults, deleteError, attempts, ret, prior,
                   isSubmitting, route, quizVars, submitted, matches, readsLeft>>
    /\ UNCHANGED mwVars

\* .update({ ...preferences, updated_at }).eq("id", existingData.id).select().single()
UpdatePreferencesFails(user, prefs) ==
    \/ user_preferences[user] = NoRow
    \/ ViolatesCheck(prefs)

\* mutant: user_preferences without its UNIQUE(user_id)
InsertPreferencesNoUnique(user, prefs) == ViolatesCheck(prefs)

\* .insert(preferences).select().single() fails on UNIQUE(user_id)
InsertPreferencesFails(user, prefs) ==
    \/ user_preferences[user] # NoRow
    \/ ViolatesCheck(prefs)

\* mutant: the update leaves the importance columns as they were
UpdatedRowKeepsOld(old, prefs) == old

\* the row after .update({ ...preferences, updated_at }): every importance column
\* takes the value given
UpdatedRow(old, prefs) == [f \in FactorNames |-> prefs[f]]

\* mutant: handleSubmit goes on to the calculation when the save failed
SaveWriteIgnored(p) ==
    /\ pc[p] = "saveWrite"
    /\ \E writeError \in BOOLEAN :
          LET failed == \/ writeError
                        \/ IF existingData[p]
                           THEN UpdatePreferencesFails(userId[p], submitted[p])
                           ELSE InsertPreferencesFails(userId[p], submitted[p])
          IN  IF failed
              THEN /\ errorMessage' = [errorMessage EXCEPT ![p] = "Failed to save preferences"]
                   /\ isSubmitting' = [isSubmitting EXCEPT ![p] = FALSE]
                   /\ pc' = [pc EXCEPT ![p] = "calculate"]
                   /\ UNCHANGED user_preferences
              ELSE /\ user_preferences' =
                          [user_preferences EXCEPT ![userId[p]] =
                              IF existingData[p] THEN UpdatedRow(@, submitted[p])
                                                 ELSE submitted[p]]
                   /\ pc' = [pc EXCEPT ![p] = "calculate"]
                   /\ UNCHANGED <<errorMessage, isSubmitting>>
    /\ UNCHANGED <<neighborhoods_tbl, user_results, schema, envVars, userId,
                   preferences, neighborhoods, results, variation, enhancedResults,
                   deleteError, attempts, ret, prior, currentQuestionIndex, answers,
                   clicksLeft, saveVars, matches, readsLeft>>
    /\ UNCHANGED <<route, mwVars>>

\* the update or the insert, and the return of saveUserPreferences; in handleSubmit
\* if (!savedPreferences) throw new Error("Failed to save preferences")
SaveWrite(p) ==
    /\ pc[p] = "saveWrite"
    /\ \E writeError \in BOOLEAN :
          LET failed == \/ writeError
                        \/ IF existingData[p]
                           THEN UpdatePreferencesFails(userId[p], submitted[p])
                           ELSE InsertPreferencesFails(userId[p], submitted[p])
          IN  IF failed
              THEN /\ errorMessage' = [errorMessage EXCEPT ![p] = "Failed to save preferences"]
                   /\ isSubmitting' = [isSubmitting EXCEPT ![p] = FALSE]
                   /\ pc' = [pc EXCEPT ![p] = "idle"]
                   /\ UNCHANGED user_preferences
              ELSE /\ user_preferences' =
                          [user_preferences EXCEPT ![userId[p]] =
                              IF existingData[p] THEN UpdatedRow(@, submitted[p])
                                                 ELSE submitted[p]]
                   /\ pc' = [pc EXCEPT ![p] = "calculate"]
                   /\ UNCHANGED <<errorMessage, isSubmitting>>
    /\ UNCHANGED <<neighborhoods_tbl, user_results, schema, envVars, userId,
                   preferences, neighborhoods, results, variation, enhancedResults,
                   deleteError, attempts, ret, prior, currentQuestionIndex, answers,
                   clicksLeft, saveVars, matches, readsLeft>>
    /\ UNCHANGED <<route, mwVars>>

-----------------------------------------------------------------------------
(* getUserMatches(userId) *)

\* r comes before s under .order("match_score", { ascending: false }); rows of equal
\* score come in an order the database chooses, here by id upwards or downwards
ComesBefore(r, s, up) ==
    \/ r = s
    \/ r.match_score > s.match_score
    \/ /\ r.match_score = s.match_score
       /\ IF up THEN r.neighborhood_id < s.neighborhood_id
                ELSE r.neighborhood_id > s.neighborhood_id

RECURSIVE OrderByMatchScore(_, _)
OrderByMatchScore(rows, up) ==
    IF DOMAIN rows = {} THEN <<>>
    ELSE LET first == CHOOSE r \in DOMAIN rows :
                          \A s \in DOMAIN rows : ComesBefore(r, s, up)
         IN  <<first>> \o OrderByMatchScore(rows (-) SetToBag({first}), up)

\* select(...).eq("user_id", userId).order("match_score", { ascending: false });
\* [] on an error
getUserMatches(user, readError, up) ==
    IF readError THEN <<>> ELSE OrderByMatchScore(RowsOf(user), up)

\* the results page of a signed-in user fetches the matches
GetUserMatches ==
    /\ readsLeft > 0
    /\ readsLeft' = readsLeft - 1
    /\ \E user \in Users, readError \in BOOLEAN, up \in BOOLEAN :
          matches' = [user   |-> user,
                      value  |-> getUserMatches(user, readError, up),
                      failed |-> readError]
    /\ UNCHANGED <<dbVars, envVars, procVars, prior, isSubmitting, route, quizVars, saveVars>>
    /\ UNCHANGED mwVars

-----------------------------------------------------------------------------
(* lib/supabase/middleware.ts: updateSession(request) and the client that follows
   its redirects.  A path is the sequence of the pieces it is written with, so
   that String.startsWith is the prefix test on sequences. *)

HomePath     == <<"/">>
LoginPath    == <<"/auth", "/login">>
SignUpPath   == <<"/auth", "/sign-up">>
CallbackPath == <<"/auth", "/callback">>

Paths ==
    {HomePath, <<"/quiz">>, <<"/results">>,
     LoginPath, <<"/auth", "/login", "/reset">>, <<"/auth", "/login", "-help">>,
     SignUpPath, <<"/auth", "/sign-up", "/done">>,
     CallbackPath, <<"/auth", "/callback", "/x">>, <<"/auth", "/reset">>}

\* searchParams.get("code"): null without the parameter, else its value
NoCode == "null"
Codes  == {NoCode, "", "c1"}

NoRequest  == [path |-> <<>>, code |-> NoCode]
NoResponse == [kind |-> "none", location |-> NoRequest]

\* pathname.startsWith(prefix)
startsWith(path, prefix) ==
    /\ Len(path) >= Len(prefix)
    /\ SubSeq(path, 1, Len(prefix)) = prefix

\* if (code): a string is truthy unless it is empty
Truthy(code) == code # NoCode /\ code # ""

\* mutant: every path under /auth is a public route
isAuthRouteAnyAuth(path) == startsWith(path, <<"/auth">>)

\* const isAuthRoute
isAuthRoute(path) ==
    \/ startsWith(path, LoginPath)
    \/ startsWith(path, SignUpPath)
    \/ path = CallbackPath

\* mutant: the new URL keeps the query of the base
NewURLKeepsQuery(path, base) == [path |-> path, code |-> base.code]

\* new URL(path, request.url): the path on the origin of the base, without its query
NewURL(path, base) == [path |-> path, code |-> NoCode]

\* NextResponse.next(), NextResponse.redirect(url)
PassThrough   == [kind |-> "next", location |-> NoRequest]
Redirect(url) == [kind |-> "redirect", location |-> url]

MaxRedirects == 4

\* updateSession(request).  exchangeCodeForSession stores a session or fails;
\* getSession refreshes the session or finds it expired.
updateSession ==
    /\ request # NoRequest
    /\ response = NoResponse
    /\ IF ~isSupabaseConfigured
       THEN /\ response' = PassThrough
            /\ UNCHANGED session
       ELSE IF Truthy(request.code)
       THEN /\ \E exchanged \in BOOLEAN : session' = (session \/ exchanged)
            /\ response' = Redirect(NewURL(HomePath, request))
       ELSE /\ \E refreshed \in BOOLEAN : session' = (session /\ refreshed)
            /\ response' = IF ~isAuthRoute(request.path) /\ ~session'
                           THEN Redirect(NewURL(LoginPath, request))
                           ELSE PassThrough
    /\ UNCHANGED <<dbVars, envVars, procVars, prior, isSubmitting, pageVars, route,
                   isSupabaseConfigured, request, redirects, firstSession>>

\* the client follows a redirect response: it requests the location
FollowRedirect ==
    /\ response.kind = "redirect"
    /\ redirects < MaxRedirects
    /\ request' = response.location
    /\ response' = NoResponse
    /\ redirects' = redirects + 1
    /\ UNCHANGED <<dbVars, envVars, procVars, prior, isSubmitting, pageVars, route,
                   isSupabaseConfigured, session, firstSession>>

Next ==
    \/ \E p \in Procs :
        \/ Call(p)
        \/ GetUserPreferences(p)
        \/ GetNeighborhoods(p)
        \/ Delete(p)
        \/ Upsert(p)
        \/ Insert(p)
        \/ handleAnswer(p)
        \/ handlePrevious(p)
        \/ NextButton(p)
        \/ handleSubmit(p)
        \/ SaveSelect(p)
        \/ SaveWrite(p)
    \/ GetUserMatches
    \/ updateSession
    \/ FollowRedirect

-----------------------------------------------------------------------------
(* Input families *)

\* a vector that is x on the factors of G and y on the others
TwoLevel(G, x, y) == [f \in FactorNames |-> IF f \in G THEN x ELSE y]

GroupA == {"affordability"}

AttrLevels == <<0, 35, 70, 100>>     \* 0.0, 3.5, 7.0 and 10.0

AttrVectors(levels) ==
    {TwoLevel(GroupA, xy[1], xy[2]) : xy \in {z \in levels \X levels : z[2] <= z[1]}}

ImportanceVectors ==
    {TwoLevel(GroupA, x, y) : x \in ImportanceMin..ImportanceMax,
                              y \in ImportanceMin..ImportanceMax}

\* the valid importance vectors w' with w'[f] = c * w[f] for one c and every f
Proportional(w) ==
    {v \in ImportanceVectors : \A f, g \in FactorNames : v[f] * w[g] = w[f] * v[g]}

\* the catalogs of length lo..hi whose neighborhoods draw their attributes from vs
Catalogs(vs, lo, hi) ==
    UNION {[1..n -> vs] : n \in lo..hi}

AsCatalog(attrSeq) == [i \in 1..Len(attrSeq) |-> [id |-> i, attrs |-> attrSeq[i]]]

\* the operand pairs of a catalog and a set of importance vectors whose exact
\* finalScore is halfway between two tenths
TiePoints(catalog, ws) ==
    {FpKey(catalog[i], w) : i \in 1..Len(catalog), w \in ws} \cap
    {k \in {FpKey(catalog[i], w) : i \in 1..Len(catalog), w \in ws} :
        \E i \in 1..Len(catalog), w \in ws :
            /\ k = FpKey(catalog[i], w)
            /\ IsHalfway(finalScore(catalog[i], w))}

StoredPrefs == {user_preferences[u] : u \in Users} \ {NoRow}

Default3 == TwoLevel(GroupA, 3, 3)   \* every importance DEFAULT 3

OneCaller == [p \in Procs |-> IF p = 1 THEN "u1" ELSE NoUser]

InitProcs ==
    /\ pc              = [p \in Procs |-> "idle"]
    /\ preferences     = [p \in Procs |-> NoRow]
    /\ neighborhoods   = [p \in Procs |-> <<>>]
    /\ results         = [p \in Procs |-> <<>>]
    /\ variation       = [p \in Procs |-> <<>>]
    /\ enhancedResults = [p \in Procs |-> <<>>]
    /\ deleteError     = [p \in Procs |-> FALSE]
    /\ attempts        = [p \in Procs |-> NoAttempts]
    /\ ret             = [p \in Procs |-> Pending]
    /\ prior           = [p \in Procs |-> EmptyBag]
    /\ isSubmitting    = [p \in Procs |-> FALSE]
    /\ errorMessage    = [p \in Procs |-> NoError]
    /\ submitted       = [p \in Procs |-> NoRow]
    /\ existingData    = [p \in Procs |-> FALSE]
    /\ matches         = NoMatches
    /\ route           = [p \in Procs |-> "/quiz"]

\* no request is under way
NoRequests ==
    /\ isSupabaseConfigured = TRUE
    /\ session = FALSE
    /\ request = NoRequest
    /\ response = NoResponse
    /\ redirects = 0
    /\ firstSession = FALSE

\* no page is open: the invocations come from callers of the exported function
NoQuizSession ==
    /\ currentQuestionIndex = [p \in Procs |-> 0]
    /\ answers              = [p \in Procs |-> NoAnswers]
    /\ clicksLeft           = [p \in Procs |-> 0]
    /\ readsLeft            = 0

\* the answers of a page on which the first n questions were answered with a
AnsweredFirst(n, a) ==
    [f \in FactorNames |->
        IF \E i \in 1..n : quizQuestions[i].preference = f THEN a ELSE 0]

\* the quiz page of session 1 stands at a question index of starts, with the
\* questions before it answered, or every question up to the last one shown;
\* it receives the given number of clicks, and the results page fetches once
QuizSession(starts, given, clicks) ==
    /\ \E k \in starts, a \in given : \E n \in {k, totalQuestions - 1} :
          /\ n >= k
          /\ currentQuestionIndex = [p \in Procs |-> IF p = 1 THEN k ELSE 0]
          /\ answers = [p \in Procs |-> IF p = 1 THEN AnsweredFirst(n, a) ELSE NoAnswers]
    /\ clicksLeft = [p \in Procs |-> IF p = 1 THEN clicks ELSE 0]
    /\ readsLeft = 1

\* session 1 is on the quiz page as user1 (NoUser: nobody is signed in); one
\* neighborhood whose score no importance changes
InitQuizPageFor(user1, starts, given, clicks) ==
    /\ userId = [p \in Procs |-> IF p = 1 THEN user1 ELSE NoUser]
    /\ user_preferences \in
          {[u \in Users |-> IF u = "u1" THEN w ELSE NoRow] : w \in {NoRow, Default3}}
    /\ neighborhoods_tbl = AsCatalog(<<TwoLevel(GroupA, 70, 70)>>)
    /\ schema \in Schemas
    /\ rng = <<100>>
    /\ user_results = EmptyBag
    /\ fpBelowTie = {}
    /\ InitProcs
    /\ QuizSession(starts, given, clicks)
    /\ NoRequests

\* user u1 on the quiz page
InitQuizPage(starts, given, clicks) == InitQuizPageFor("u1", starts, given, clicks)

\* a page at the last but one question with two clicks to come
ShortQuiz == InitQuizPage({totalQuestions - 2}, {4}, 2)

\* a client sends a request for a path of paths with a code of codes; nobody
\* calls calculateAndSaveMatches and no page is open
InitRequests(paths, codes, configured) ==
    /\ userId = [p \in Procs |-> NoUser]
    /\ user_preferences = [u \in Users |-> NoRow]
    /\ neighborhoods_tbl = <<>>
    /\ schema = "cleanup"
    /\ rng = <<100>>
    /\ user_results = EmptyBag
    /\ fpBelowTie = {}
    /\ InitProcs
    /\ NoQuizSession
    /\ isSupabaseConfigured \in configured
    /\ session \in BOOLEAN
    /\ firstSession = session
    /\ request \in [path : paths, code : codes]
    /\ response = NoResponse
    /\ redirects = 0

\* a client without a session comes back from the OAuth provider
ShortRequests == InitRequests({<<"/quiz">>}, {"c1"}, {TRUE})

\* what every specification starts from besides its own family
Common == ShortQuiz \/ ShortRequests

\* the result table starts empty; the doubles fall either way at every halfway
\* value that the catalog and the importance vectors ws can produce
InitStore(ws) ==
    /\ user_results = EmptyBag
    /\ fpBelowTie \in SUBSET TiePoints(neighborhoods_tbl, ws)

MaxCatalog == 2

\* two request handlers, for one user or for two
Init ==
    /\ userId \in {[p \in Procs |-> "u1"],
                   [p \in Procs |-> IF p = 1 THEN "u1" ELSE "u2"]}
    /\ user_preferences \in
          {[u \in Users |-> IF u = "u1" THEN w ELSE TwoLevel(GroupA, 5, 1)] :
              w \in {Default3, NoRow}}
    /\ neighborhoods_tbl \in
          {AsCatalog(c) : c \in Catalogs({TwoLevel(GroupA, 70, 70),
                                          TwoLevel(GroupA, 100, 35)}, 0, MaxCatalog)}
    /\ schema \in Schemas
    /\ rng \in {<<100>>, <<0, 199>>}
    /\ InitStore(StoredPrefs)
    /\ InitProcs
    /\ NoQuizSession
    /\ NoRequests

InitSpec == Init \/ Common

Spec == InitSpec /\ [][Next]_vars

TypeOK ==
    /\ \A p \in Procs :
        /\ pc[p] \in {"idle", "saveSelect", "saveWrite", "calculate",
                      "getUserPreferences", "getNeighborhoods",
                      "delete", "upsert", "insert"}
        /\ currentQuestionIndex[p] \in 0..(totalQuestions - 1)
        /\ clicksLeft[p] >= 0
        /\ Len(results[p]) = Len(neighborhoods[p])
        /\ Len(enhancedResults[p]) = Len(results[p])
    /\ IsABag(user_results)
    /\ readsLeft >= 0
    /\ redirects \in 0..MaxRedirects
    /\ response.kind \in {"none", "next", "redirect"}

-----------------------------------------------------------------------------
(* One request handler, one user, every pair of attribute vectors of a family *)

ScoreCatalog == 2

ScoreLevels == {0, 35, 100}

InitScore ==
    /\ userId = OneCaller
    /\ user_preferences \in
          {[u \in Users |-> IF u = "u1" THEN w ELSE NoRow] : w \in ImportanceVectors}
    /\ neighborhoods_tbl \in
          {AsCatalog(c) : c \in Catalogs(AttrVectors(ScoreLevels), 1, ScoreCatalog)}
    /\ schema = "cleanup"
    /\ rng = <<100>>
    /\ InitStore(UNION {Proportional(w) : w \in StoredPrefs})
    /\ InitProcs
    /\ NoQuizSession
    /\ NoRequests

InitSpecScore == InitScore \/ Common

SpecScore == InitSpecScore /\ [][Next]_vars

-----------------------------------------------------------------------------
(* One request handler, one user, catalogs longer than the boosted ranks *)

RankCatalog == 12

\* neighborhood j of the catalog (a, b): its attributes walk through AttrLevels
RankAttrs(a, b, j) ==
    TwoLevel(GroupA, AttrLevels[((j + a) % Len(AttrLevels)) + 1],
                     AttrLevels[((j * b) % Len(AttrLevels)) + 1])

RankCatalogs ==
    {[j \in 1..n |-> RankAttrs(a, b, j)] :
        n \in (RankCatalog - 3)..RankCatalog,
        a \in 0..(Len(AttrLevels) - 1), b \in 0..(Len(AttrLevels) - 1)}

InitRank ==
    /\ userId = OneCaller
    /\ user_preferences \in
          {[u \in Users |-> IF u = "u1" THEN w ELSE NoRow] :
              w \in {Default3, TwoLevel(GroupA, 5, 1), TwoLevel(GroupA, 1, 4)}}
    /\ neighborhoods_tbl \in {AsCatalog(c) : c \in RankCatalogs}
    /\ schema = "cleanup"
    /\ rng \in {<<100>>, <<0, 199>>, <<105, 95, 104>>}
    /\ user_results = EmptyBag
    /\ fpBelowTie \in {{}, TiePoints(neighborhoods_tbl, StoredPrefs)}
    /\ InitProcs
    /\ NoQuizSession
    /\ NoRequests

InitSpecRank == InitRank \/ Common

SpecRank == InitSpecRank /\ [][Next]_vars

-----------------------------------------------------------------------------
(* One user on the quiz page, from several question indexes *)

MaxClicks == 3

\* the first question, the last but one and the last
QuizStarts == {0, totalQuestions - 2, totalQuestions - 1}

InitSpecQuiz == InitQuizPage(QuizStarts, {4}, MaxClicks) \/ ShortRequests

SpecQuiz == InitSpecQuiz /\ [][Next]_vars

-----------------------------------------------------------------------------
(* One user on the quiz page, in the middle of the quiz *)

MiddleStarts == {4, 5}

InitSpecProgress == InitQuizPage(MiddleStarts, {4}, 2) \/ Common

SpecProgress == InitSpecProgress /\ [][Next]_vars

-----------------------------------------------------------------------------
(* One client and the middleware, every path and every kind of code *)

InitSpecSession == InitRequests(Paths, Codes, BOOLEAN) \/ ShortQuiz

SpecSession == InitSpecSession /\ [][Next]_vars

-----------------------------------------------------------------------------
(* The submit button of the quiz page, pressed by user u1 or with nobody signed in *)

SubmitStarts == {totalQuestions - 2, totalQuestions - 1}

InitSpecSubmit ==
    \/ InitQuizPageFor("u1", SubmitStarts, {4}, 2)
    \/ InitQuizPageFor(NoUser, SubmitStarts, {4}, 2)
    \/ ShortRequests

SpecSubmit == InitSpecSubmit /\ [][Next]_vars

-----------------------------------------------------------------------------
(* Two quiz pages of the same user, each about to be submitted; the user has no
   stored preferences *)

TwoPages ==
    /\ currentQuestionIndex = [p \in Procs |-> totalQuestions - 1]
    /\ answers = [p \in Procs |-> AnsweredFirst(totalQuestions, IF p = 1 THEN 4 ELSE 2)]
    /\ clicksLeft = [p \in Procs |-> 1]
    /\ readsLeft = 0

InitTwoPages ==
    /\ userId = [p \in Procs |-> "u1"]
    /\ user_preferences = [u \in Users |-> NoRow]
    /\ neighborhoods_tbl = AsCatalog(<<TwoLevel(GroupA, 70, 70)>>)
    /\ schema \in Schemas
    /\ rng = <<100>>
    /\ user_results = EmptyBag
    /\ fpBelowTie = {}
    /\ InitProcs
    /\ TwoPages
    /\ NoRequests

InitSpecSave == InitTwoPages \/ Common

SpecSave == InitSpecSave /\ [][Next]_vars

-----------------------------------------------------------------------------
(* Properties *)

\* the invocation holds the results of its computation
Computed(p) == Len(results[p]) > 0

\* the neighborhood a result row of invocation p is about, and its attributes
NbOf(p, row) ==
    neighborhoods[p][CHOOSE i \in 1..Len(neighborhoods[p]) :
                        neighborhoods[p][i].id = row.neighborhood_id]

AttrsOf(p, row) == NbOf(p, row).attrs

\* C1: every match_score the enhancement step produces, and therefore every stored
\* row, lies in [40, 95], whatever the boost and the variation in [-1, 1)
C1_EnhancedInRange ==
    /\ \A p \in Procs : \A i \in 1..Len(enhancedResults[p]) :
          /\ enhancedResults[p][i].match_score >= 400
          /\ enhancedResults[p][i].match_score <= 950
    /\ \A r \in DOMAIN user_results : r.match_score >= 400 /\ r.match_score <= 950

\* a stored run in which the upper clamp cut a boosted score plus a positive variation
\* and the lower clamp raised an unboosted score plus a negative variation
C1_Witness ==
    \E p \in Procs : \E i, j \in 1..Len(enhancedResults[p]) :
        /\ BagIn(enhancedResults[p][i], user_results)
        /\ BagIn(enhancedResults[p][j], user_results)
        /\ results[p][i].match_score * 10 + 200 * (11 - i) + variation[p][i] > 9500
        /\ variation[p][i] > 0
        /\ j > 10
        /\ results[p][j].match_score * 10 + variation[p][j] < 4000

\* C2: every pre-enhancement match_score lies in [40, 95]
C2_PreEnhancementInRange ==
    \A p \in Procs : \A i \in 1..Len(results[p]) :
        results[p][i].match_score >= 400 /\ results[p][i].match_score <= 950

\* one run scored a neighborhood at each end of the range and one strictly inside
C2_Witness ==
    \E p \in Procs : \E i, j \in 1..Len(results[p]) :
        /\ results[p][i].match_score = 950
        /\ results[p][j].match_score > 400
        /\ results[p][j].match_score < 950

\* C3: if every attribute of A is >= the attribute of B, A's pre-enhancement score
\* (rounded to one decimal) is >= B's, for the same importance vector
C3_Monotone ==
    \A p \in Procs : \A i, j \in 1..Len(results[p]) :
        (\A f \in FactorNames : AttrsOf(p, results[p][i])[f] >= AttrsOf(p, results[p][j])[f])
            => results[p][i].match_score >= results[p][j].match_score

\* A dominates a different B, and B's exact score is halfway between two tenths
C3_Witness ==
    \E p \in Procs : \E i, j \in 1..Len(results[p]) :
        /\ \A f \in FactorNames :
              AttrsOf(p, results[p][i])[f] >= AttrsOf(p, results[p][j])[f]
        /\ AttrsOf(p, results[p][i]) # AttrsOf(p, results[p][j])
        /\ results[p][i].match_score > results[p][j].match_score
        /\ IsHalfway(finalScore(NbOf(p, results[p][j]), preferences[p]))

\* every variation of the run is zero
ZeroJitter(p) == \A i \in 1..Len(variation[p]) : variation[p][i] = 0

\* C4: with zero jitter the result at zero-based rank i < 10 gets (10 - i) * 2 added,
\* capped at 95, and a result at rank >= 10 keeps its score
C4_RankBoost ==
    \A p \in Procs : ZeroJitter(p) =>
        \A k \in 1..Len(enhancedResults[p]) :
            LET i == k - 1
                before == results[p][k].match_score
                after  == enhancedResults[p][k].match_score
            IN  IF i < 10
                THEN after = Min(before + (10 - i) * 2 * 10, 950)
                ELSE after = before

\* a zero-jitter run over more than ten neighborhoods with an uncapped boost at
\* rank 0 and at rank 9
C4_Witness ==
    \E p \in Procs :
        /\ ZeroJitter(p)
        /\ Len(enhancedResults[p]) > 10
        /\ enhancedResults[p][1].match_score = results[p][1].match_score + 200
        /\ enhancedResults[p][10].match_score = results[p][10].match_score + 20
        /\ enhancedResults[p][11].match_score = results[p][11].match_score

\* two invocations computed from the same importance vector and the same catalog
SameInputs(p, q) ==
    /\ Computed(p) /\ Computed(q)
    /\ preferences[p] = preferences[q]
    /\ neighborhoods[p] = neighborhoods[q]

Abs(x) == IF x < 0 THEN -x ELSE x

ApartAtMost(d) ==
    \A p, q \in Procs : SameInputs(p, q) =>
        \A i \in 1..Len(enhancedResults[p]) : \A j \in 1..Len(enhancedResults[q]) :
            enhancedResults[p][i].neighborhood_id = enhancedResults[q][j].neighborhood_id
                => Abs(enhancedResults[p][i].match_score
                         - enhancedResults[q][j].match_score) <= d

\* C6 as stated: the enhanced scores of one neighborhood in two runs on the same
\* inputs differ by at most 1
C6_Original == ApartAtMost(10)

\* C6 as amended: they differ by at most 2, one jitter amplitude for each run
C6_ApartAtMostTwo == ApartAtMost(20)

\* two runs on the same inputs whose scores for one neighborhood are 2 apart
C6_Witness ==
    \E p, q \in Procs :
        /\ p # q /\ SameInputs(p, q)
        /\ \E i \in 1..Len(enhancedResults[p]) :
              enhancedResults[p][i].match_score
                  = enhancedResults[q][i].match_score + 20

AllEqual(x) == TwoLevel(GroupA, x, x)

\* C7: every importance 5 and every attribute 10 give normalizedMatch 1 and the
\* pre-enhancement score 95.0; at rank 0 the score after the boost is 95.0
C7_MaxScenario ==
    \A p \in Procs : \A k \in 1..Len(results[p]) :
        (preferences[p] = AllEqual(5) /\ AttrsOf(p, results[p][k]) = AllEqual(100)) =>
            /\ normalizedMatch(NbOf(p, results[p][k]), preferences[p]).num
                  = normalizedMatch(NbOf(p, results[p][k]), preferences[p]).den
            /\ results[p][k].match_score = 950
            /\ (k = 1 /\ variation[p][1] = 0) => enhancedResults[p][1].match_score = 950

\* that neighborhood was ranked first, enhanced without variation and stored
C7_Witness ==
    \E p \in Procs :
        /\ Computed(p)
        /\ preferences[p] = AllEqual(5)
        /\ AttrsOf(p, results[p][1]) = AllEqual(100)
        /\ variation[p][1] = 0
        /\ BagIn(enhancedResults[p][1], user_results)

\* C8: every attribute 0 gives normalizedMatch 0 and the pre-enhancement score 40.0
C8_MinScenario ==
    \A p \in Procs : \A k \in 1..Len(results[p]) :
        AttrsOf(p, results[p][k]) = AllEqual(0) =>
            /\ totalWeightedScore(NbOf(p, results[p][k]), preferences[p]) = 0
            /\ results[p][k].match_score = 400

\* the all-zero neighborhood scored for the user whose importances are all 1
C8_Witness ==
    \E p \in Procs : \E k \in 1..Len(results[p]) :
        /\ preferences[p] = AllEqual(1)
        /\ AttrsOf(p, results[p][k]) = AllEqual(0)
        /\ results[p][k].match_score = 400

\* the invocation returned []
ReturnedEmpty(p) == ret[p] = [returned |-> TRUE, value |-> <<>>]

\* C9: with no stored preferences, or an empty or unfetchable catalog, the
\* invocation returns [] and no step of it up to there deletes or writes a stored
\* result; it goes on to the delete only with preferences and a nonempty catalog
C9_EarlyReturn ==
    [][\A p \in Procs :
          /\ (/\ pc[p] = "getUserPreferences"
              /\ pc'[p] # pc[p]
              /\ user_preferences[userId[p]] = NoRow) => ReturnedEmpty(p)'
          /\ (/\ pc[p] = "getNeighborhoods"
              /\ pc'[p] # pc[p]
              /\ neighborhoods_tbl = <<>>) => ReturnedEmpty(p)'
          /\ (/\ pc[p] \in {"getUserPreferences", "getNeighborhoods"}
              /\ pc'[p] = "idle") => ReturnedEmpty(p)'
          /\ (/\ pc[p] \in {"idle", "getUserPreferences", "getNeighborhoods"}
              /\ pc'[p] # pc[p]) => user_results' = user_results
          /\ pc'[p] = "delete" =>
                preferences'[p] # NoRow /\ Len(neighborhoods'[p]) > 0
      ]_vars

\* an invocation returned [] before its delete although its user has stored results
C9_Witness ==
    \E p \in Procs :
        /\ ReturnedEmpty(p)
        /\ attempts[p] = NoAttempts
        /\ \E r \in DOMAIN user_results : r.user_id = userId[p]

\* C10 as stated: scaling every importance by one factor leaves the pre-enhancement
\* score of every neighborhood unchanged
C10_ScaleInvariant ==
    \A p \in Procs : \A k \in 1..Len(results[p]) :
        \A w \in Proportional(preferences[p]) :
            MatchRow(userId[p], NbOf(p, results[p][k]), w).match_score
                = results[p][k].match_score

\* the importance vector is in the documented domain: 13 integers in 1..5
ValidImportance(prefs) ==
    \A f \in FactorNames : prefs[f] \in ImportanceMin..ImportanceMax

\* C11: for every importance vector in the documented domain totalImportanceWeight is
\* at least 13 * 0.2 (13 fifths), so the guard totalImportanceWeight > 0 holds and
\* matchScore never stays at baseScore for want of weight
C11_WeightPositive ==
    \A p \in Procs :
        (preferences[p] # NoRow /\ ValidImportance(preferences[p])) =>
            /\ totalImportanceWeight(preferences[p]) >= Len(FactorOrder) * ImportanceMin
            /\ totalImportanceWeight(preferences[p]) > 0
            /\ \A i \in 1..Len(neighborhoods[p]) :
                  LET nm == normalizedMatch(neighborhoods[p][i], preferences[p])
                  IN  matchScore(neighborhoods[p][i], preferences[p])
                         = Rat(baseScore * nm.den + nm.num * variableScore, nm.den)

\* a run scored a catalog for the user whose 13 importances are the minimum 1
C11_Witness ==
    \E p \in Procs :
        /\ Computed(p)
        /\ preferences[p] = AllEqual(ImportanceMin)
        /\ totalImportanceWeight(preferences[p]) = Len(FactorOrder)

\* the rows a table holds for one user, as a bag
StoredFor(table, user) ==
    [r \in {x \in DOMAIN table : x.user_id = user} |-> table[r]]

\* the rows of a run, as a bag
RunRows(p) == SetToBag(SeqToSet(enhancedResults[p]))

\* the step with which invocation p returns the rows it saved
SavedStep(p) ==
    /\ pc[p] \in {"upsert", "insert"}
    /\ pc'[p] = "idle"
    /\ ret'[p].value # <<>>

BagOfSeq(rows) ==
    [r \in SeqToSet(rows) |-> Cardinality({i \in 1..Len(rows) : rows[i] = r})]

\* invocation p is between its call and its return
Running(p) ==
    pc[p] \in {"getUserPreferences", "getNeighborhoods", "delete", "upsert", "insert"}

\* a getUserMatches call returns in this step
ReadStep == readsLeft' = readsLeft - 1

\* C14 as stated: a getUserMatches(u) call that returns without an error while one
\* calculateAndSaveMatches(u) is running, for a user who had stored results when
\* that invocation was called, returns the complete prior result set or the
\* complete new one
C14_AtomicSupersede ==
    [][\A p \in Procs :
          (/\ ReadStep
           /\ ~matches'.failed
           /\ matches'.user = userId[p]
           /\ Running(p)
           /\ \A q \in Procs \ {p} : ~(Running(q) /\ userId[q] = userId[p])
           /\ prior[p] # EmptyBag)
          => BagOfSeq(matches'.value) \in {prior[p], RunRows(p)}
      ]_vars

CalcStep(p) ==
    /\ pc'[p] # pc[p]
    /\ \/ Running(p)
       \/ pc'[p] = "getUserPreferences"

\* what the delete of invocation p left of the rows its user had at the call
AfterOwnDelete(p) ==
    IF deleteError[p] \/ ~HasDeletePolicy THEN prior[p] ELSE EmptyBag

\* the rows of AfterOwnDelete(p) that the upsert of p does not replace
KeptByUpsert(p) ==
    [r \in {x \in DOMAIN AfterOwnDelete(p) : ~Conflicts(x, enhancedResults[p])}
        |-> AfterOwnDelete(p)[r]]

\* C17: a step of calculateAndSaveMatches(u) leaves every result row of every other
\* user and every preference row as it was; and when no other invocation serves u,
\* the rows stored for u when the invocation returns are determined by the rows u had
\* at the call, the rows of this run and the outcome of its own statements, whatever
\* the steps of an invocation for another user in between
C17_Independent ==
    [][\A p \in Procs :
          CalcStep(p) =>
              /\ user_preferences' = user_preferences
              /\ \A v \in Users \ {userId[p]} :
                    StoredFor(user_results', v) = StoredFor(user_results, v)
              /\ (/\ \A q \in Procs \ {p} : userId[q] # userId[p]
                  /\ pc[p] \in {"upsert", "insert"}
                  /\ pc'[p] = "idle")
                 => StoredFor(user_results', userId[p]) =
                       IF pc[p] = "upsert" THEN KeptByUpsert(p) (+) RunRows(p)
                       ELSE IF ret'[p].value # <<>> THEN AfterOwnDelete(p) (+) RunRows(p)
                       ELSE AfterOwnDelete(p)
      ]_vars

\* an invocation for one user stands between its delete and its upsert, having had
\* stored rows at its call, while the rows another user's invocation saved are stored
C17_Witness ==
    \E p, q \in Procs :
        /\ userId[p] # NoUser /\ userId[q] # NoUser
        /\ userId[p] # userId[q]
        /\ pc[q] = "upsert"
        /\ prior[q] # EmptyBag
        /\ pc[p] = "idle" /\ ret[p].returned /\ ret[p].value # <<>>
        /\ StoredFor(user_results, userId[p]) = BagOfSeq(ret[p].value)

\* saveUserPreferences returns a record in this step
SavedPreferencesStep(p) == pc[p] = "saveWrite" /\ pc'[p] = "calculate"

\* C18: when saveUserPreferences(p) returns a record, getUserPreferences(p.user_id),
\* read without a fetch error from the store as the save left it, returns a record
\* whose 13 importance fields equal those of p, on the insert path and on the update
\* path
C18_RoundTrip ==
    [][\A p \in Procs :
          SavedPreferencesStep(p) =>
              /\ getUserPreferences(userId[p], FALSE)' # NoRow
              /\ \A f \in FactorNames :
                    getUserPreferences(userId[p], FALSE)'[f] = submitted[p][f]
              /\ existingData[p] <=> user_preferences[userId[p]] # NoRow
      ]_vars

\* a save on the update path that changed the stored importances has returned
C18_Witness ==
    \E p \in Procs :
        /\ pc[p] = "calculate"
        /\ existingData[p]
        /\ submitted[p] # Default3
        /\ getUserPreferences(userId[p], FALSE) = submitted[p]

\* C19 as stated: in a run that saved its rows, a neighborhood whose pre-enhancement
\* score is greater than another's has a stored enhanced match_score that is not
\* smaller, so that getUserMatches, which orders by match_score, does not list it
\* after the other
C19_RankingMaintained ==
    \A p \in Procs :
        (ret[p].returned /\ ret[p].value # <<>> /\ ret[p].value = enhancedResults[p]) =>
            \A i, j \in 1..Len(results[p]) :
                results[p][i].match_score > results[p][j].match_score =>
                    enhancedResults[p][i].match_score >= enhancedResults[p][j].match_score

\* the step of handleSubmit that hands a record to saveUserPreferences
SubmitStep(p) == pc[p] = "idle" /\ pc'[p] = "saveSelect"

\* C20: the record the quiz page hands to saveUserPreferences has the 13 importance
\* fields, each an integer in 1..5: the answer given to its question, or 3 where the
\* question was left unanswered
C20_SubmittedInRange ==
    [][\A p \in Procs :
          SubmitStep(p) =>
              /\ DOMAIN submitted'[p] = FactorNames
              /\ \A f \in FactorNames :
                    /\ submitted'[p][f] \in 1..5
                    /\ answers[p][f] = 0 => submitted'[p][f] = 3
                    /\ answers[p][f] # 0 => submitted'[p][f] = answers[p][f]
      ]_vars

\* C20 witness: a record was submitted with the last question unanswered and
\* another question answered with a value other than 3
C20_Witness ==
    \E p \in Procs :
        /\ pc[p] = "saveSelect"
        /\ answers[p]["shopping"] = 0 /\ submitted[p]["shopping"] = 3
        /\ \E f \in FactorNames : answers[p][f] # 0 /\ submitted[p][f] = answers[p][f]
                                   /\ submitted[p][f] # 3

\* C21 as stated: for the 0-based index of the question shown, getQuizProgress
\* is an integer in 0..100, and getQuizProgress(5) is 38
C21_ProgressExample ==
    \A p \in Procs :
        /\ getQuizProgress(currentQuestionIndex[p]) \in 0..100
        /\ currentQuestionIndex[p] = 5 => getQuizProgress(currentQuestionIndex[p]) = 38

\* the step in which updateSession answers the request
AnswerStep == response = NoResponse /\ response' # NoResponse

\* a request without a code parameter for a path that is not under /auth/login or
\* /auth/sign-up and is not exactly /auth/callback
ProtectedRequest(r) ==
    /\ r.code = NoCode
    /\ ~startsWith(r.path, <<"/auth", "/login">>)
    /\ ~startsWith(r.path, <<"/auth", "/sign-up">>)
    /\ r.path # <<"/auth", "/callback">>

\* C22: with Supabase configured, updateSession answers a protected request with
\* the pass-through response only if a session exists, and with a redirect to
\* /auth/login when there is none
C22_RouteProtection ==
    [][(AnswerStep /\ isSupabaseConfigured /\ ProtectedRequest(request)) =>
          /\ response'.kind = "next" => session'
          /\ ~session' => response' = [kind |-> "redirect",
                                       location |-> [path |-> <<"/auth", "/login">>,
                                                     code |-> NoCode]]
      ]_vars

\* C22 witness: a request for a path under /auth/callback, but not /auth/callback
\* itself, was answered without a session by the redirect to /auth/login
C22_Witness ==
    /\ isSupabaseConfigured /\ ~session /\ redirects = 0
    /\ request = [path |-> <<"/auth", "/callback", "/x">>, code |-> NoCode]
    /\ response.kind = "redirect" /\ response.location.path = <<"/auth", "/login">>

\* C27: a client that sent its first request without a session follows at most
\* two redirects of updateSession: no redirect carries a code, and the answer to
\* the request sent after the second redirect is not a redirect
C27_NoRedirectLoop ==
    ~firstSession =>
        /\ redirects <= 2
        /\ response.kind = "redirect" => /\ redirects < 2
                                         /\ response.location.code = NoCode
        /\ (redirects = 2 /\ response # NoResponse) => response.kind = "next"

\* C27 witness: the client came with a code and without a session, the exchange
\* stored no session, and after the redirects to / and to /auth/login the login
\* page is served
C27_Witness ==
    /\ ~firstSession /\ ~session /\ isSupabaseConfigured
    /\ redirects = 2
    /\ request.path = <<"/auth", "/login">>
    /\ response.kind = "next"

\* the attributes of a neighborhood are all equal to x (in tenths)
AllAttrs(neighborhood, x) == \A f \in FactorNames : neighborhood.attrs[f] = x

\* C23 as stated: for valid preferences the score of the simple formula lies in
\* [0, 100], is 0 when the 13 attributes are 0 and 100 when they are all 10
C23_PercentageScale ==
    \A p \in Procs :
        (Computed(p) /\ ValidImportance(preferences[p])) =>
            \A i \in 1..Len(neighborhoods[p]) :
                LET score == simpleMatchScore(neighborhoods[p][i], preferences[p])
                IN  /\ RatLeq(Rat(0, 1), score) /\ RatLeq(score, Rat(100, 1))
                    /\ AllAttrs(neighborhoods[p][i], 0) => score.num = 0
                    /\ AllAttrs(neighborhoods[p][i], 100) => score.num = 100 * score.den

RECURSIVE Gcd(_, _)
Gcd(a, b) == IF b = 0 THEN a ELSE Gcd(b, a % b)

\* a rational in lowest terms
Lowest(x) == Rat(x.num \div Gcd(x.num, x.den), x.den \div Gcd(x.num, x.den))

\* x <= y, compared in lowest terms
Leq(x, y) == RatLeq(Lowest(x), Lowest(y))

\* x = 40 + 2.75 * y for two rationals, that is 4 x = 160 + 11 y
IsAffineOf(x, y) ==
    LET a == Lowest(x)
        b == Lowest(y)
    IN  4 * a.num * b.den = a.den * (160 * b.den + 11 * b.num)

\* C24: for valid preferences and attributes the unrounded pre-enhancement score
\* of the enhanced formula is 40 + 2.75 * the unrounded score of the simple formula,
\* and the two formulas order any two neighborhoods of a run the same way
C24_FormulasAgree ==
    \A p \in Procs :
        (Computed(p) /\ ValidImportance(preferences[p])) =>
            \A i, j \in 1..Len(neighborhoods[p]) :
                LET A == neighborhoods[p][i]
                    B == neighborhoods[p][j]
                    w == preferences[p]
                IN  /\ IsAffineOf(finalScore(A, w), simpleMatchScore(A, w))
                    /\ Leq(simpleMatchScore(A, w), simpleMatchScore(B, w))
                          <=> Leq(finalScore(A, w), finalScore(B, w))

\* C24 witness: a run with unequal importances scored two neighborhoods, one
\* strictly above the other, neither at an end of the scale
C24_Witness ==
    \E p \in Procs : \E i, j \in 1..Len(neighborhoods[p]) :
        LET A == neighborhoods[p][i]
            B == neighborhoods[p][j]
            w == preferences[p]
        IN  /\ Computed(p) /\ ValidImportance(w)
            /\ w["affordability"] # w["safety"]
            /\ simpleMatchScore(B, w).num > 0
            /\ ~Leq(simpleMatchScore(A, w), simpleMatchScore(B, w))
            /\ ~Leq(Rat(20, 1), simpleMatchScore(A, w))
            /\ ~Leq(finalScore(A, w), finalScore(B, w))

\* C25: with zero jitter the enhanced scores of a run, taken in rank order, never
\* increase, and none of them exceeds 95
C25_ZeroJitterOrder ==
    \A p \in Procs : ZeroJitter(p) =>
        \A k \in 1..Len(enhancedResults[p]) :
            /\ enhancedResults[p][k].match_score <= 950
            /\ k < Len(enhancedResults[p]) =>
                  enhancedResults[p][k].match_score >= enhancedResults[p][k + 1].match_score

\* C25 witness: a zero-jitter run over more than ten neighborhoods in which the
\* two first ranks are capped at 95 from different scores, and the last boosted
\* rank stays above the first unboosted one
C25_Witness ==
    \E p \in Procs :
        /\ ZeroJitter(p)
        /\ Len(enhancedResults[p]) > 10
        /\ results[p][1].match_score > results[p][4].match_score
        /\ enhancedResults[p][1].match_score = 950
        /\ enhancedResults[p][4].match_score = 950
        /\ enhancedResults[p][10].match_score > enhancedResults[p][11].match_score
        /\ enhancedResults[p][11].match_score = results[p][11].match_score

\* no other invocation has been called
Alone(p) == \A q \in Procs \ {p} : pc[q] = "idle" /\ ret[q] = Pending

\* the fallback insert of invocation p fails after its delete reported no error
FailedAfterDelete(p) ==
    /\ pc[p] = "insert" /\ pc'[p] = "idle"
    /\ ~deleteError[p]
    /\ ret'[p] = [returned |-> TRUE, value |-> <<>>]

\* C26 as stated: when the delete of calculateAndSaveMatches(u) succeeded and the
\* upsert and the fallback insert both failed, the invocation returns an empty
\* list and u has no stored results
C26_LeftWithoutResults ==
    [][\A p \in Procs :
          (FailedAfterDelete(p) /\ Alone(p)) =>
              StoredFor(user_results', userId[p]) = EmptyBag
      ]_vars

\* the questions with an index below n have a recorded answer on the page of p
AnsweredBelow(p, n) ==
    \A i \in 0..(n - 1) : answers[p][quizQuestions[i + 1].preference] # 0

\* C28: on every quiz page currentQuestionIndex stays within 0..12 and every
\* question before the current one has a recorded answer, so that the submit
\* button is shown only with questions 0..11 answered; no step removes a
\* recorded answer
C28_QuizNavigation ==
    /\ [](\A p \in Procs :
             /\ currentQuestionIndex[p] \in 0..12
             /\ AnsweredBelow(p, currentQuestionIndex[p])
             /\ currentQuestionIndex[p] = totalQuestions - 1 => AnsweredBelow(p, 12))
    /\ [][\A p \in Procs : \A f \in FactorNames :
             answers[p][f] # 0 => answers'[p][f] # 0]_vars

\* C28 witness: a page that received an answer, a Previous click and a Next click
\* shows the submit button, with the last question unanswered
C28_Witness ==
    \E p \in Procs :
        /\ currentQuestionIndex[p] = totalQuestions - 1
        /\ clicksLeft[p] = 0
        /\ pc[p] = "idle" /\ ~ret[p].returned
        /\ answers[p]["shopping"] = 0
        /\ answers[p]["education"] \notin {0, 4}

\* C29: in a submission of the quiz page calculateAndSaveMatches is called only
\* once saveUserPreferences has stored the record, and the page goes to /results
\* only when that call returns; with nobody signed in, or when the save fails, an
\* error message is set and neither happens
C29_SubmitOrder ==
    [][\A p \in Procs :
          /\ (pc[p] # "calculate" /\ pc'[p] = "calculate") =>
                /\ pc[p] = "saveWrite"
                /\ user_preferences'[userId[p]] # NoRow
                /\ \A f \in FactorNames : user_preferences'[userId[p]][f] = submitted[p][f]
          /\ (isSubmitting[p] /\ pc[p] # "getUserPreferences"
                              /\ pc'[p] = "getUserPreferences") => pc[p] = "calculate"
          /\ (route[p] # "/results" /\ route'[p] = "/results") =>
                /\ isSubmitting[p]
                /\ ~ret[p].returned /\ ret'[p].returned
          /\ (handleSubmit(p) /\ userId[p] = NoUser) =>
                /\ errorMessage'[p] = "User not authenticated"
                /\ pc'[p] = "idle" /\ route'[p] = route[p]
          /\ (pc[p] = "saveWrite" /\ pc'[p] \notin {"saveWrite", "calculate"}) =>
                /\ errorMessage'[p] = "Failed to save preferences"
                /\ pc'[p] = "idle" /\ route'[p] = route[p]
      ]_vars

\* C29 witness: a submission saved the record of the page, the calculation
\* returned its rows and the page went to /results
C29_Witness ==
    \E p \in Procs :
        /\ route[p] = "/results"
        /\ ret[p].returned /\ ret[p].value # <<>>
        /\ errorMessage[p] = NoError
        /\ submitted[p] # NoRow
        /\ user_preferences[userId[p]] = submitted[p]

\* the write of saveUserPreferences in session p is over and took the insert path
Inserted(p) ==
    /\ submitted[p] # NoRow
    /\ pc[p] \notin {"saveSelect", "saveWrite"}
    /\ ~existingData[p]

\* saveUserPreferences returned null to session p
SaveReturnedNull(p) == errorMessage[p] = "Failed to save preferences"

\* C30: when two invocations of saveUserPreferences for one user both find no row
\* and both insert, an insert that comes after a stored row fails and changes
\* nothing, an insert that succeeds stores its input in the one row of the user,
\* and once both are over at least one has returned null and the stored row is
\* the input of the one that has not, as long as no invocation has updated it
C30_OneRowPerUser ==
    /\ [][\A p \in Procs :
             (pc[p] = "saveWrite" /\ pc'[p] # "saveWrite" /\ ~existingData[p]) =>
                 IF user_preferences[userId[p]] # NoRow
                 THEN /\ pc'[p] = "idle" /\ SaveReturnedNull(p)'
                      /\ user_preferences' = user_preferences
                 ELSE pc'[p] = "calculate" =>
                          /\ \A f \in FactorNames :
                                user_preferences'[userId[p]][f] = submitted[p][f]
                          /\ ~SaveReturnedNull(p)'
         ]_vars
    /\ [](\A p, q \in Procs :
             (p # q /\ userId[p] = userId[q] /\ Inserted(p) /\ Inserted(q)) =>
                 /\ SaveReturnedNull(p) \/ SaveReturnedNull(q)
                 /\ (~SaveReturnedNull(p) /\ \A r \in Procs : ~existingData[r]) =>
                       \A f \in FactorNames :
                           user_preferences[userId[p]][f] = submitted[p][f])

\* C30 witness: both sessions found no row; one insert stored its record and the
\* other, with a different record, returned null
C30_Witness ==
    \E p, q \in Procs :
        /\ p # q /\ userId[p] = userId[q]
        /\ Inserted(p) /\ Inserted(q)
        /\ submitted[p] # submitted[q]
        /\ SaveReturnedNull(p) /\ ~SaveReturnedNull(q)
        /\ user_preferences[userId[q]] = submitted[q]

====
